---------------------------- MODULE Spec2Model ----------------------------
(***************************************************************************)
(* A model of upcoming_revenue.py: the value normalisers, the two          *)
(* attachment aggregators, the date->row index of the worksheet, the two   *)
(* worksheet applications and main().                                      *)
(*                                                                         *)
(* Representation.                                                         *)
(*  - A float is a fixed-point integer, in units of 1/Unit.                *)
(*  - A calendar date is the integer yyyy*10000 + mm*100 + dd, so that the *)
(*    order of integers is the order of dates.                             *)
(*  - A cell value is a record tagged by t: "none" (None), "num" (int or   *)
(*    float), "str" (text, as a sequence of characters), "datetime",       *)
(*    "date", "datestr" (text that spells a date in a named format) and    *)
(*    "name" (text that spells a name, possibly padded and capitalised).   *)
(***************************************************************************)
EXTENDS Integers, Sequences, FiniteSets, TLC

VARIABLES
    pc,            \* position of the running function
    val,           \* parse_money: its argument
    money,         \* parse_money: its outcome
    up_msg,        \* mailbox: "none", "no_xlsx" or "xlsx" for the upcoming message
    c_msg,         \* mailbox: the same for the completed message
    up_rows,       \* rows of the upcoming attachment (header first)
    c_rows,        \* rows of the completed attachment (header first)
    c_fname,       \* file name of the completed attachment
    up,            \* outcome of subtotal_by_date_from_rows_upcoming
    comp,          \* outcome of completed_values_from_rows_by_bu_sum_jobs_subtotal
    file_date,     \* outcome of extract_date_from_filename
    remote,        \* the worksheet TAB_NAME of the file on SharePoint
    uploaded,      \* has the workbook been uploaded
    ws,            \* the worksheet TAB_NAME of the workbook in memory
    ws_before,     \* the worksheet as it was before any application
    ws_once,       \* the worksheet after the first application
    napply,        \* how many times the application was applied
    writes,        \* the cell assignments of the last application
    glob_totals    \* global_totals of the last apply_upcoming_to_workbook

moneyVars == <<val, money>>
mailVars == <<up_msg, c_msg>>
docVars == <<up_rows, c_rows, c_fname>>
resVars == <<up, comp, file_date>>
remoteVars == <<remote, uploaded>>
sheetVars == <<ws, ws_before, ws_once, napply, writes, glob_totals>>

vars == <<pc, moneyVars, mailVars, docVars, resVars, remoteVars, sheetVars>>

-----------------------------------------------------------------------------
(* Bounds *)

\* longest text handed to parse_money
MaxStrLen == 3

\* the dates of the model are the first MaxDate days of March 2024
MaxDate == 2

\* most data rows of an upcoming attachment
MaxUpBody == 2

\* most data rows of a completed attachment
MaxCBody == 3

\* rows of the worksheet, the header row included
MaxRow == 3

\* most data rows behind an aggregation result handed to an application
MaxApplyBody == 3

-----------------------------------------------------------------------------
(* Values *)

\* one currency unit in fixed-point: three decimal places
Unit == 10^3
Cent == Unit \div 100

NoneCell == [t |-> "none"]
Num(n) == [t |-> "num", n |-> n]
Str(s) == [t |-> "str", s |-> s]
Blank == Str(<<>>)

Returned(v) == [exc |-> "", v |-> v]
Raised(e) == [exc |-> e, v |-> 0]
Unset == [exc |-> "unset", v |-> 0]

Digits == {"0", "1", "2", "3", "4", "5", "6", "7", "8", "9"}
DigitVal(c) ==
    CASE c = "0" -> 0 [] c = "1" -> 1 [] c = "2" -> 2 [] c = "3" -> 3
      [] c = "4" -> 4 [] c = "5" -> 5 [] c = "6" -> 6 [] c = "7" -> 7
      [] c = "8" -> 8 [] c = "9" -> 9

RECURSIVE DigitsValue(_)
DigitsValue(ds) ==
    IF ds = <<>> THEN 0
    ELSE DigitsValue(SubSeq(ds, 1, Len(ds) - 1)) * 10 + DigitVal(ds[Len(ds)])

\* re.sub(r"[^0-9.\-]", "", s): keep digits, '.', '-'
RECURSIVE re_sub_non_numeric(_)
re_sub_non_numeric(s) ==
    IF s = <<>> THEN <<>>
    ELSE IF Head(s) \in Digits \cup {".", "-"}
         THEN <<Head(s)>> \o re_sub_non_numeric(Tail(s))
         ELSE re_sub_non_numeric(Tail(s))

\* the part of a float literal after its sign
Unsigned(s) == IF s # <<>> /\ Head(s) = "-" THEN Tail(s) ELSE s

\* which strings over digits, '.', '-' Python's float() accepts
IsFloatLiteral(s) ==
    LET b == Unsigned(s)
    IN  /\ \A i \in 1..Len(b) : b[i] # "-"
        /\ Cardinality({i \in 1..Len(b) : b[i] = "."}) <= 1
        /\ \E i \in 1..Len(b) : b[i] \in Digits

\* the value of an accepted literal, in units of 1/Unit
FloatValue(s) ==
    LET b == Unsigned(s)
        dots == {i \in 1..Len(b) : b[i] = "."}
        dot == IF dots = {} THEN Len(b) + 1 ELSE CHOOSE i \in dots : TRUE
        ip == SubSeq(b, 1, dot - 1)
        fp == SubSeq(SubSeq(b, dot + 1, Len(b)) \o <<"0", "0", "0">>, 1, 3)
        mag == DigitsValue(ip) * Unit + DigitsValue(fp) * (Unit \div 1000)
    IN  IF s # <<>> /\ Head(s) = "-" THEN 0 - mag ELSE mag

\* float(s): ValueError on a string that is no literal
float_of_str(s) ==
    IF IsFloatLiteral(s) THEN Returned(FloatValue(s)) ELSE Raised("ValueError")

\* parse_money, lines 94-100
parse_money(v) ==
    IF v.t = "none" THEN Returned(0)
    ELSE IF v.t = "num" THEN Returned(v.n)
    ELSE LET s == re_sub_non_numeric(v.s)
         IN  IF s # <<>> THEN float_of_str(s) ELSE Returned(0)

-----------------------------------------------------------------------------
(* Configuration, lines 56-68 *)

COL_DATE == 2
COL_COMPLETED == 4
COL_SCHEDULED == 5

BUs == {"arlington", "carrollton", "colleyville", "dallas", "denton"}

BU_MAP ==
    [bu \in BUs |->
        CASE bu = "arlington" ->
               [date_col |-> 9, completed_col |-> 11, scheduled_col |-> 12]
          [] bu = "carrollton" ->
               [date_col |-> 16, completed_col |-> 18, scheduled_col |-> 19]
          [] bu = "colleyville" ->
               [date_col |-> 23, completed_col |-> 25, scheduled_col |-> 26]
          [] bu = "dallas" ->
               [date_col |-> 30, completed_col |-> 32, scheduled_col |-> 33]
          [] bu = "denton" ->
               [date_col |-> 37, completed_col |-> 39, scheduled_col |-> 40]]

-----------------------------------------------------------------------------
(* Dates and names *)

DateOf(y, m, d) == y * 10000 + m * 100 + d

DateTime(d, h) == [t |-> "datetime", d |-> d, h |-> h]
DateStr(fmt, d) == [t |-> "datestr", fmt |-> fmt, d |-> d]
Name(base, pad, upper) ==
    [t |-> "name", base |-> base, pad |-> pad, upper |-> upper]

NoDate == [some |-> FALSE, d |-> 0]
SomeDate(d) == [some |-> TRUE, d |-> d]

\* the formats strptime is tried with, then datetime.fromisoformat
DateFormats == {"%m/%d/%Y", "%m/%d/%y", "%Y-%m-%d", "%Y/%m/%d", "iso"}

\* try_parse_any_date, lines 102-118
try_parse_any_date(v) ==
    IF v.t = "datetime" THEN SomeDate(v.d)
    ELSE IF v.t = "date" THEN SomeDate(v.d)
    ELSE IF v.t = "datestr" /\ v.fmt \in DateFormats THEN SomeDate(v.d)
    ELSE NoDate

\* str(x).strip().lower(); a cell that is no name spells none
strip_lower(v) == IF v.t = "name" THEN v.base ELSE ""

\* `t in name` for the header texts of the model
IsSubstring(t, name) ==
    \/ t = name
    \/ <<t, name>> \in {<<"subtotal", "jobs subtotal">>,
                        <<"subtotal", "total jobs subtotal">>,
                        <<"jobs subtotal", "total jobs subtotal">>,
                        <<"business unit", "business unit name">>}

Min(S) == CHOOSE x \in S : \A y \in S : x <= y
Max(S) == CHOOSE x \in S : \A y \in S : x >= y

\* find_col_idx, lines 120-129; columns count from 1 and 0 is None
find_col_idx(header, targets) ==
    LET h == [i \in 1..Len(header) |-> strip_lower(header[i])]
        exact == {i \in 1..Len(h) : h[i] \in targets}
        part == {i \in 1..Len(h) : \E t \in targets : IsSubstring(t, h[i])}
    IN  IF exact # {} THEN Min(exact)
        ELSE IF part # {} THEN Min(part)
        ELSE 0

\* round(v, 2): to the nearest cent, a tie to the even cent
Round2(v) ==
    LET q == v \div Cent
        r == v % Cent
    IN  IF 2 * r < Cent THEN q * Cent
        ELSE IF 2 * r > Cent THEN (q + 1) * Cent
        ELSE IF q % 2 = 0 THEN q * Cent ELSE (q + 1) * Cent

\* m.get(k, 0.0) of a dict
Get(m, k, default) == IF k \in DOMAIN m THEN m[k] ELSE default

\* m[k] = x of a dict
Put(m, k, x) == [j \in DOMAIN m \cup {k} |-> IF j = k THEN x ELSE m[j]]

EmptyDict == [j \in {} |-> 0]

-----------------------------------------------------------------------------
(* extract_date_from_filename, lines 270-286 *)

\* a file name, by the three numbers the first match of
\* (\d{1,4})[._-](\d{1,2})[._-](\d{1,4}) gives; <<>> when nothing matches
FileName(nums) == [t |-> "fname", nums |-> nums]

IsLeap(y) == (y % 4 = 0 /\ y % 100 # 0) \/ y % 400 = 0

DaysIn(y, m) ==
    IF m = 2 THEN (IF IsLeap(y) THEN 29 ELSE 28)
    ELSE IF m \in {4, 6, 9, 11} THEN 30 ELSE 31

\* date(yyyy, mm, dd): ValueError outside the calendar
date_of(yyyy, mm, dd) ==
    IF yyyy \in 1..9999 /\ mm \in 1..12 /\ dd \in 1..DaysIn(yyyy, mm)
    THEN Returned(DateOf(yyyy, mm, dd))
    ELSE Raised("ValueError")

extract_date_from_filename(fname) ==
    IF fname.nums = <<>> THEN Raised("UnparseableFilenameDate")
    ELSE LET nums == fname.nums
         IN  IF nums[1] > 31
             THEN date_of(nums[1], nums[2], nums[3])
             ELSE date_of(IF nums[3] < 100 THEN 2000 + nums[3] ELSE nums[3],
                          nums[1], nums[2])

-----------------------------------------------------------------------------
(* subtotal_by_date_from_rows_upcoming, lines 288-329 *)

\* lines 309-311: the unit a row counts for, "" when it is skipped
upcoming_row_unit(totals, r, bu_col) ==
    IF strip_lower(r[bu_col]) \in DOMAIN totals
    THEN strip_lower(r[bu_col])
    ELSE ""

\* the date is read before the unit is looked at
upcoming_row_date_first(acc, r, bu_col, date_col, sub_col) ==
    IF Len(r) < Max({bu_col, date_col, sub_col}) THEN acc
    ELSE LET d == try_parse_any_date(r[date_col])
             bu == upcoming_row_unit(acc.totals, r, bu_col)
         IN  IF ~d.some THEN acc
             ELSE IF bu = ""
                  THEN [acc EXCEPT !.dates_seen = @ \cup {d.d}]
             ELSE LET subtotal == parse_money(r[sub_col])
                      m == acc.totals[bu]
                  IN  IF subtotal.exc # ""
                      THEN [acc EXCEPT !.exc = subtotal.exc]
                      ELSE [acc EXCEPT
                              !.totals[bu] = Put(m, d.d, Get(m, d.d, 0) + subtotal.v),
                              !.dates_seen = @ \cup {d.d}]

\* lines 305-320: one pass of the loop over the body
upcoming_row(acc, r, bu_col, date_col, sub_col) ==
    IF Len(r) < Max({bu_col, date_col, sub_col}) THEN acc
    ELSE LET bu == upcoming_row_unit(acc.totals, r, bu_col)
         IN  IF bu = "" THEN acc
             ELSE LET d == try_parse_any_date(r[date_col])
                  IN  IF ~d.some THEN acc
                      ELSE LET subtotal == parse_money(r[sub_col])
                               m == acc.totals[bu]
                           IN  IF subtotal.exc # ""
                               THEN [acc EXCEPT !.exc = subtotal.exc]
                               ELSE [acc EXCEPT
                                       !.totals[bu] =
                                           Put(m, d.d, Get(m, d.d, 0) + subtotal.v),
                                       !.dates_seen = @ \cup {d.d}]

\* lines 302-320: the loop; an exception of parse_money ends it
RECURSIVE upcoming_scan(_, _, _, _, _)
upcoming_scan(acc, body, bu_col, date_col, sub_col) ==
    IF body = <<>> \/ acc.exc # "" THEN acc
    ELSE upcoming_scan(upcoming_row(acc, Head(body), bu_col, date_col, sub_col),
                       Tail(body), bu_col, date_col, sub_col)

subtotal_by_date_from_rows_upcoming(rows) ==
    IF Len(rows) < 2 THEN Raised("EmptyAttachment")
    ELSE
    LET header == rows[1]
        body == Tail(rows)
        bu_col == find_col_idx(header, {"business unit"})
        date_col == find_col_idx(header, {"next appt start date"})
        sub_col == find_col_idx(header, {"jobs subtotal", "subtotal"})
    IN  IF bu_col = 0 \/ date_col = 0 \/ sub_col = 0 THEN Raised("MissingColumn")
        ELSE
        LET acc == upcoming_scan(
                       [totals |-> [bu \in BUs |-> EmptyDict],
                        dates_seen |-> {}, exc |-> ""],
                       body, bu_col, date_col, sub_col)
        IN  IF acc.exc # "" THEN Raised(acc.exc)
            ELSE IF acc.dates_seen = {} THEN Raised("NoValidDates")
            ELSE Returned(
                   [today_in_file |-> Min(acc.dates_seen),
                    totals_by_bu_date |->
                        [bu \in BUs |->
                            [d \in DOMAIN acc.totals[bu] |->
                                Round2(acc.totals[bu][d])]]])

-----------------------------------------------------------------------------
(* completed_values_from_rows_by_bu_sum_jobs_subtotal, lines 331-365 *)

\* `v in (None, "", " ")`, line 352
IsBlankAmount(v) ==
    \/ v.t = "none"
    \/ v.t = "str" /\ v.s \in {<<>>, <<" ">>}

\* the unit's value is replaced by the row's amount, not added to
completed_row_overwrite(acc, r, bu_col, sub_col) ==
    IF Len(r) < Max({bu_col, sub_col}) THEN acc
    ELSE IF IsBlankAmount(r[sub_col]) THEN acc
    ELSE LET amt == parse_money(r[sub_col])
             bu_raw == strip_lower(r[bu_col])
         IN  IF amt.exc # "" THEN [acc EXCEPT !.exc = amt.exc]
             ELSE IF bu_raw \in DOMAIN acc.bu_sum
                  THEN [acc EXCEPT !.global_sum = amt.v,
                                   !.bu_sum[bu_raw] = amt.v]
                  ELSE [acc EXCEPT !.global_sum = amt.v]

\* the global sum takes only the rows of the configured units
completed_row_units_only(acc, r, bu_col, sub_col) ==
    IF Len(r) < Max({bu_col, sub_col}) THEN acc
    ELSE IF IsBlankAmount(r[sub_col]) THEN acc
    ELSE LET amt == parse_money(r[sub_col])
             bu_raw == strip_lower(r[bu_col])
         IN  IF amt.exc # "" THEN [acc EXCEPT !.exc = amt.exc]
             ELSE IF bu_raw \in DOMAIN acc.bu_sum
                  THEN [acc EXCEPT !.global_sum = @ + amt.v,
                                   !.bu_sum[bu_raw] = @ + amt.v]
                  ELSE acc

\* lines 347-360: one pass of the loop over the body
completed_row(acc, r, bu_col, sub_col) ==
    IF Len(r) < Max({bu_col, sub_col}) THEN acc
    ELSE IF IsBlankAmount(r[sub_col]) THEN acc
    ELSE LET amt == parse_money(r[sub_col])
             bu_raw == strip_lower(r[bu_col])
         IN  IF amt.exc # "" THEN [acc EXCEPT !.exc = amt.exc]
             ELSE IF bu_raw \in DOMAIN acc.bu_sum
                  THEN [acc EXCEPT !.global_sum = @ + amt.v,
                                   !.bu_sum[bu_raw] = @ + amt.v]
                  ELSE [acc EXCEPT !.global_sum = @ + amt.v]

RECURSIVE completed_scan(_, _, _, _)
completed_scan(acc, body, bu_col, sub_col) ==
    IF body = <<>> \/ acc.exc # "" THEN acc
    ELSE completed_scan(completed_row(acc, Head(body), bu_col, sub_col),
                        Tail(body), bu_col, sub_col)

completed_values_from_rows_by_bu_sum_jobs_subtotal(rows) ==
    IF Len(rows) < 2 THEN Raised("EmptyAttachment")
    ELSE
    LET header == rows[1]
        body == Tail(rows)
        bu_col == find_col_idx(header, {"business unit"})
        sub_col == find_col_idx(header, {"jobs subtotal", "subtotal"})
    IN  IF bu_col = 0 \/ sub_col = 0 THEN Raised("MissingColumn")
        ELSE
        LET acc == completed_scan(
                       [global_sum |-> 0, bu_sum |-> [bu \in BUs |-> 0],
                        exc |-> ""],
                       body, bu_col, sub_col)
        IN  IF acc.exc # "" THEN Raised(acc.exc)
            ELSE Returned([global_sum |-> Round2(acc.global_sum),
                           bu_sum |-> [bu \in BUs |-> Round2(acc.bu_sum[bu])]])

-----------------------------------------------------------------------------
(* The worksheet: a sequence of rows, each a function from columns to cells; *)
(* row 1 is the header and ws.max_row is the number of rows                  *)

\* the order of BU_MAP's keys
BU_ORDER == <<"arlington", "carrollton", "colleyville", "dallas", "denton">>

SheetCols ==
    {COL_DATE, COL_COMPLETED, COL_SCHEDULED}
      \cup UNION {{BU_MAP[bu].date_col, BU_MAP[bu].completed_col,
                   BU_MAP[bu].scheduled_col} : bu \in BUs}

\* build_sheet_date_row_map_xl, lines 369-381: a later row replaces an
\* earlier one of the same date
build_sheet_date_row_map_xl(sheet, date_col) ==
    LET found == {row \in 2..Len(sheet) :
                     try_parse_any_date(sheet[row][date_col]).some}
        DateAt(row) == try_parse_any_date(sheet[row][date_col]).d
    IN  [d \in {DateAt(row) : row \in found} |->
            Max({row \in found : DateAt(row) = d})]

\* a cell assignment: ws.cell(row, column).value = value, made for date d
Write(row, col, value, d) == [row |-> row, col |-> col, value |-> value, d |-> d]

\* the assignments add to the number in the cell
sheet_after_adding(sheet, ww) ==
    [row \in 1..Len(sheet) |->
        [col \in DOMAIN sheet[row] |->
            IF \E w \in ww : w.row = row /\ w.col = col
            THEN LET w == CHOOSE w \in ww : w.row = row /\ w.col = col
                 IN  IF w.value.t = "num" /\ sheet[row][col].t = "num"
                     THEN Num(sheet[row][col].n + w.value.n)
                     ELSE w.value
            ELSE sheet[row][col]]]

\* the worksheet after a set of assignments to distinct cells
sheet_after(sheet, ww) ==
    [row \in 1..Len(sheet) |->
        [col \in DOMAIN sheet[row] |->
            IF \E w \in ww : w.row = row /\ w.col = col
            THEN (CHOOSE w \in ww : w.row = row /\ w.col = col).value
            ELSE sheet[row][col]]]

-----------------------------------------------------------------------------
(* apply_upcoming_to_workbook, lines 383-421 *)

\* a unit's total replaces what the units before it gave the date
add_unit_totals_overwrite(global_totals, dmap) ==
    [d \in DOMAIN global_totals \cup DOMAIN dmap |->
        IF d \in DOMAIN dmap THEN dmap[d] ELSE global_totals[d]]

\* lines 392-393 for one unit: global_totals[d] = global_totals.get(d, 0.0) + amt
add_unit_totals(global_totals, dmap) ==
    [d \in DOMAIN global_totals \cup DOMAIN dmap |->
        Get(global_totals, d, 0) + Get(dmap, d, 0)]

RECURSIVE sum_units(_, _, _)
sum_units(global_totals, totals_by_bu_date, order) ==
    IF order = <<>> THEN global_totals
    ELSE sum_units(add_unit_totals(global_totals, totals_by_bu_date[Head(order)]),
                   totals_by_bu_date, Tail(order))

\* lines 389-394
global_totals_of(totals_by_bu_date) ==
    LET g == sum_units(EmptyDict, totals_by_bu_date, BU_ORDER)
    IN  [d \in DOMAIN g |-> Round2(g[d])]

\* the anchor date itself is written too
scheduled_writes_from_anchor(row_map, dmap, today_in_file, sched_col) ==
    {Write(row_map[d], sched_col, Num(dmap[d]), d) :
        d \in {x \in DOMAIN dmap : x >= today_in_file /\ x \in DOMAIN row_map}}

\* lines 399-406 and 412-419: one loop over a date -> total map
scheduled_writes(row_map, dmap, today_in_file, sched_col) ==
    {Write(row_map[d], sched_col, Num(dmap[d]), d) :
        d \in {x \in DOMAIN dmap : x > today_in_file /\ x \in DOMAIN row_map}}

upcoming_writes(sheet, today_in_file, totals_by_bu_date) ==
    LET base_date_row == build_sheet_date_row_map_xl(sheet, COL_DATE)
        bu_date_row ==
            [bu \in BUs |->
                build_sheet_date_row_map_xl(sheet, BU_MAP[bu].date_col)]
    IN  scheduled_writes(base_date_row, global_totals_of(totals_by_bu_date),
                         today_in_file, COL_SCHEDULED)
          \cup UNION {scheduled_writes(bu_date_row[bu], totals_by_bu_date[bu],
                                       today_in_file, BU_MAP[bu].scheduled_col) :
                         bu \in BUs}

apply_upcoming_to_workbook(sheet, today_in_file, totals_by_bu_date) ==
    sheet_after(sheet, upcoming_writes(sheet, today_in_file, totals_by_bu_date))

-----------------------------------------------------------------------------
(* apply_completed_to_workbook, lines 423-446; fdate is its file_date *)

\* the scheduled cell is left as it is
completed_writes_at_no_clear(row_map, fdate, value, cols) ==
    IF fdate \in DOMAIN row_map
    THEN {Write(row_map[fdate], cols.completed_col, Num(value), fdate)}
    ELSE {}

\* lines 430-434 and 439-444: the two assignments of one column group
completed_writes_at(row_map, fdate, value, cols) ==
    IF fdate \in DOMAIN row_map
    THEN {Write(row_map[fdate], cols.completed_col, Num(value), fdate),
          Write(row_map[fdate], cols.scheduled_col, Blank, fdate)}
    ELSE {}

GlobalCols ==
    [date_col |-> COL_DATE, completed_col |-> COL_COMPLETED,
     scheduled_col |-> COL_SCHEDULED]

\* lines 437-444: the loop over BU_MAP; each pass reads the worksheet as the
\* passes before it left it
RECURSIVE completed_units(_, _, _, _)
completed_units(st, fdate, bu_completed_values, order) ==
    IF order = <<>> THEN st
    ELSE LET bu == Head(order)
             ww == completed_writes_at(
                       build_sheet_date_row_map_xl(st.sheet, BU_MAP[bu].date_col),
                       fdate, Get(bu_completed_values, bu, 0), BU_MAP[bu])
         IN  completed_units(
                 [sheet |-> sheet_after(st.sheet, ww), writes |-> st.writes \cup ww],
                 fdate, bu_completed_values, Tail(order))

\* the worksheet after the application and the assignments it made
completed_application(sheet, fdate, global_completed_value, bu_completed_values) ==
    LET ww == completed_writes_at(build_sheet_date_row_map_xl(sheet, COL_DATE),
                                  fdate, global_completed_value, GlobalCols)
    IN  completed_units([sheet |-> sheet_after(sheet, ww), writes |-> ww],
                        fdate, bu_completed_values, BU_ORDER)

apply_completed_to_workbook(sheet, fdate, global_completed_value, bu_completed_values) ==
    completed_application(sheet, fdate, global_completed_value,
                          bu_completed_values).sheet

-----------------------------------------------------------------------------
(* parse_money on its own *)

MoneyChars == {"1", "5", ".", "-", "$", " "}

RECURSIVE StringsUpTo(_, _)
StringsUpTo(A, n) ==
    IF n = 0 THEN {<<>>}
    ELSE LET shorter == StringsUpTo(A, n - 1)
         IN  shorter \cup {Append(s, c) : s \in shorter, c \in A}

MoneyInputs ==
    {NoneCell, Num(0), Num(12 * Unit + 5 * Cent), Num(0 - 3 * Unit)}
      \cup {Str(s) : s \in StringsUpTo(MoneyChars, MaxStrLen)}

NoSheet == <<>>

NoMoney == val = NoneCell /\ money = Unset
NoMail == up_msg = "none" /\ c_msg = "none"
NoDocs == up_rows = <<>> /\ c_rows = <<>> /\ c_fname = <<>>
NoResults == up = Unset /\ comp = Unset /\ file_date = Unset
NoRemote == remote = NoSheet /\ uploaded = FALSE
NoSheets ==
    /\ ws = NoSheet /\ ws_before = NoSheet /\ ws_once = NoSheet
    /\ napply = 0 /\ writes = {} /\ glob_totals = <<>>

InitMoney ==
    /\ pc = "parse_money"
    /\ val \in MoneyInputs
    /\ money = Unset
    /\ NoMail /\ NoDocs /\ NoResults /\ NoRemote /\ NoSheets

ParseMoney ==
    /\ pc = "parse_money"
    /\ money' = parse_money(val)
    /\ pc' = IF money'.exc = "" THEN "returned" ELSE "raised"
    /\ UNCHANGED <<val, mailVars, docVars, resVars, remoteVars, sheetVars>>

NextMoney == ParseMoney

SpecMoney == InitMoney /\ [][NextMoney]_vars

\* C8: parse_money never fails: once it has run, it has returned a number
\* (0.0 for text that is empty after stripping or is no valid number).
C8_NeverRaises ==
    pc \in {"returned", "raised"} => money.exc = ""

-----------------------------------------------------------------------------
(* The aggregators on their own *)

Dates == {DateOf(2024, 3, k) : k \in 1..MaxDate}

\* the ways the model writes the k-th date in a cell
DateCellOf(k) ==
    LET d == DateOf(2024, 3, k)
    IN  CASE k % 4 = 1 -> DateTime(d, 9)
          [] k % 4 = 2 -> DateStr("%m/%d/%Y", d)
          [] k % 4 = 3 -> [t |-> "date", d |-> d]
          [] OTHER -> DateStr("iso", d)

DateCells ==
    {DateCellOf(k) : k \in 1..MaxDate} \cup {DateStr("words", DateOf(2024, 3, 1))}

UnitCells ==
    {Name("arlington", TRUE, TRUE), Name("dallas", FALSE, FALSE),
     Name("houston", FALSE, FALSE)}

BadAmount == Str(<<"1", ".", "2", ".", "3">>)

UpcomingAmounts == {Num(10 * Unit + 4), Str(<<"$", "5">>), BadAmount}

CompletedAmounts ==
    {Num(10 * Unit), Num(20 * Unit + 4), Blank, Str(<<" ">>), BadAmount}

\* headers, each with the columns its data rows put their cells in
HeaderStd ==
    [cells |-> <<Name("business unit", TRUE, TRUE),
                 Name("next appt start date", FALSE, FALSE),
                 Name("jobs subtotal", FALSE, TRUE)>>,
     bu |-> 1, date |-> 2, sub |-> 3]

HeaderMixed ==
    [cells |-> <<Name("total jobs subtotal", FALSE, FALSE),
                 Name("next appt start date", FALSE, TRUE),
                 Name("subtotal", TRUE, FALSE),
                 Name("business unit name", FALSE, FALSE)>>,
     bu |-> 4, date |-> 2, sub |-> 3]

HeaderNoDate ==
    [cells |-> <<Name("business unit", FALSE, FALSE),
                 Name("jobs subtotal", FALSE, FALSE)>>,
     bu |-> 1, date |-> 0, sub |-> 2]

HeaderNoUnit ==
    [cells |-> <<Name("next appt start date", FALSE, FALSE),
                 Name("subtotal", FALSE, FALSE)>>,
     bu |-> 0, date |-> 1, sub |-> 2]

MakeRow(h, bu, date, amt) ==
    [i \in 1..Len(h.cells) |->
        IF i = h.bu THEN bu
        ELSE IF i = h.date THEN date
        ELSE IF i = h.sub THEN amt
        ELSE Num(99 * Unit)]

ShortRow == <<Name("dallas", FALSE, FALSE)>>

RECURSIVE SeqsUpTo(_, _)
SeqsUpTo(S, n) ==
    IF n = 0 THEN {<<>>}
    ELSE LET shorter == SeqsUpTo(S, n - 1)
         IN  shorter \cup {Append(q, x) : q \in shorter, x \in S}

UpcomingRowsOf(h) ==
    {MakeRow(h, bu, date, amt) :
        bu \in UnitCells, date \in DateCells, amt \in UpcomingAmounts}
      \cup {ShortRow}

CompletedRowsOf(h) ==
    {MakeRow(h, bu, DateCellOf(1), amt) :
        bu \in UnitCells, amt \in CompletedAmounts}
      \cup {ShortRow}

\* an attachment: a header and up to n data rows
Attachment(h, body) == <<h.cells>> \o body

InitAgg ==
    /\ \/ /\ pc = "upcoming"
          /\ \/ up_rows = <<>>
             \/ \E n \in 0..MaxUpBody :
                  \E body \in [1..n -> UpcomingRowsOf(HeaderStd)] :
                     up_rows = Attachment(HeaderStd, body)
             \/ \E h \in {HeaderMixed, HeaderNoDate} : \E n \in 0..1 :
                  \E body \in [1..n -> UpcomingRowsOf(h)] :
                     up_rows = Attachment(h, body)
          /\ c_rows = <<>>
       \/ /\ pc = "completed"
          /\ up_rows = <<>>
          /\ \/ c_rows = <<>>
             \/ \E n \in 0..MaxCBody :
                  \E body \in [1..n -> CompletedRowsOf(HeaderNoDate)] :
                     c_rows = Attachment(HeaderNoDate, body)
             \/ \E h \in {HeaderMixed, HeaderNoUnit} : \E n \in 0..1 :
                  \E body \in [1..n -> CompletedRowsOf(h)] :
                     c_rows = Attachment(h, body)
    /\ c_fname = <<>>
    /\ NoMoney /\ NoMail /\ NoResults /\ NoRemote /\ NoSheets

AggregateUpcoming ==
    /\ pc = "upcoming"
    /\ up' = subtotal_by_date_from_rows_upcoming(up_rows)
    /\ pc' = "upcoming_done"
    /\ UNCHANGED <<moneyVars, mailVars, docVars, comp, file_date, remoteVars,
                   sheetVars>>

AggregateCompleted ==
    /\ pc = "completed"
    /\ comp' = completed_values_from_rows_by_bu_sum_jobs_subtotal(c_rows)
    /\ pc' = "completed_done"
    /\ UNCHANGED <<moneyVars, mailVars, docVars, up, file_date, remoteVars,
                   sheetVars>>

NextAgg == AggregateUpcoming \/ AggregateCompleted

SpecAgg == InitAgg /\ [][NextAgg]_vars

-----------------------------------------------------------------------------
(* Claims about the aggregators *)

BuCol(rows) == find_col_idx(rows[1], {"business unit"})
DateCol(rows) == find_col_idx(rows[1], {"next appt start date"})
SubCol(rows) == find_col_idx(rows[1], {"jobs subtotal", "subtotal"})

\* a data row whose business-unit cell names none of the configured units
Unrecognised(rows, r) ==
    /\ Len(r) >= BuCol(rows)
    /\ strip_lower(r[BuCol(rows)]) \notin BUs

RECURSIVE Keep(_, _)
Keep(rows, body) ==
    IF body = <<>> THEN <<>>
    ELSE IF Unrecognised(rows, Head(body)) THEN Keep(rows, Tail(body))
    ELSE <<Head(body)>> \o Keep(rows, Tail(body))

\* the attachment without its rows of unrecognised units
DropUnrecognised(rows) == <<rows[1]>> \o Keep(rows, Tail(rows))

\* what the completed aggregator gives for rows, nothing summed if no data row
\* is left
CompletedOf(rows) ==
    LET r == completed_values_from_rows_by_bu_sum_jobs_subtotal(rows)
    IN  IF r.exc = "" THEN r.v
        ELSE [global_sum |-> 0, bu_sum |-> [bu \in BUs |-> 0]]

\* a data row of the completed attachment that the scan counts
Counted(rows, r) ==
    /\ Len(r) >= Max({BuCol(rows), SubCol(rows)})
    /\ ~IsBlankAmount(r[SubCol(rows)])

RECURSIVE SumAmounts(_, _, _)
SumAmounts(rows, body, units) ==
    IF body = <<>> THEN 0
    ELSE (IF /\ Counted(rows, Head(body))
             /\ strip_lower(Head(body)[BuCol(rows)]) \in units
          THEN parse_money(Head(body)[SubCol(rows)]).v ELSE 0)
         + SumAmounts(rows, Tail(body), units)

AllUnits == BUs \cup {"houston", ""}

\* C3, as stated: a row of an unrecognised unit adds to no value either
\* aggregator returns (per unit or global), and the rows after it are still
\* aggregated: the values returned are those of the attachment without it.
C3_UnrecognisedInNoValue ==
    /\ (pc = "upcoming_done" /\ up.exc = "")
          => up = subtotal_by_date_from_rows_upcoming(DropUnrecognised(up_rows))
    /\ (pc = "completed_done" /\ comp.exc = "")
          => comp.v = CompletedOf(DropUnrecognised(c_rows))

\* C3, amended: a row of an unrecognised unit adds to no per-unit value of
\* either aggregator and to nothing the upcoming aggregator returns, the rows
\* after it are still aggregated, and the completed aggregator's global value
\* does take its amount: that value is the sum over every counted row.
C3_UnrecognisedOnlyInCompletedGlobal ==
    /\ (pc = "upcoming_done" /\ up.exc = "")
          => up = subtotal_by_date_from_rows_upcoming(DropUnrecognised(up_rows))
    /\ (pc = "completed_done" /\ comp.exc = "")
          => /\ comp.v.bu_sum = CompletedOf(DropUnrecognised(c_rows)).bu_sum
             /\ comp.v.global_sum =
                  Round2(SumAmounts(c_rows, Tail(c_rows), AllUnits))

\* a row of an unrecognised unit with an amount, a valid row after it, and
\* the completed aggregator returned
C3_Witness ==
    /\ pc = "completed_done" /\ comp.exc = ""
    /\ \E i, j \in 2..Len(c_rows) :
          /\ i < j
          /\ Unrecognised(c_rows, c_rows[i]) /\ Counted(c_rows, c_rows[i])
          /\ ~Unrecognised(c_rows, c_rows[j]) /\ Counted(c_rows, c_rows[j])
          /\ comp.v.bu_sum[strip_lower(c_rows[j][BuCol(c_rows)])] > 0
          /\ comp.v.global_sum > comp.v.bu_sum[strip_lower(c_rows[j][BuCol(c_rows)])]

\* the last-non-blank policy: scanning from the end, the first counted row
\* gives the global value and the first counted row of a unit gives the unit's
RECURSIVE LastNonBlank(_, _, _)
LastNonBlank(rows, body, units) ==
    IF body = <<>> THEN 0
    ELSE LET r == body[Len(body)]
         IN  IF /\ Counted(rows, r)
                /\ strip_lower(r[BuCol(rows)]) \in units
             THEN parse_money(r[SubCol(rows)]).v
             ELSE LastNonBlank(rows, SubSeq(body, 1, Len(body) - 1), units)

\* C5, as stated: last-non-blank is a policy the completed aggregator can be
\* set to; the code takes no policy, so its one behaviour would have to give
\* the last-non-blank values.
C5_LastNonBlankSelectable ==
    (pc = "completed_done" /\ comp.exc = "")
       => /\ comp.v.global_sum = Round2(LastNonBlank(c_rows, Tail(c_rows), AllUnits))
          /\ \A bu \in BUs :
                comp.v.bu_sum[bu] = Round2(LastNonBlank(c_rows, Tail(c_rows), {bu}))

\* C5, amended: the completed aggregator implements the sum-all policy only:
\* the global value is the sum of every non-blank amount, a unit's value the
\* sum of its non-blank amounts, 0.0 for a unit with none, each rounded to
\* cents.
C5_SumAllOnly ==
    (pc = "completed_done" /\ comp.exc = "")
       => /\ comp.v.global_sum = Round2(SumAmounts(c_rows, Tail(c_rows), AllUnits))
          /\ \A bu \in BUs :
                comp.v.bu_sum[bu] = Round2(SumAmounts(c_rows, Tail(c_rows), {bu}))

\* the rows (dallas, 10), (dallas, blank), (dallas, 20.004) give dallas 30
C5_Witness ==
    /\ pc = "completed_done" /\ comp.exc = ""
    /\ Len(c_rows) = 4
    /\ \A i \in 2..4 :
          /\ Len(c_rows[i]) >= Max({BuCol(c_rows), SubCol(c_rows)})
          /\ strip_lower(c_rows[i][BuCol(c_rows)]) = "dallas"
    /\ c_rows[2][SubCol(c_rows)] = Num(10 * Unit)
    /\ c_rows[3][SubCol(c_rows)] = Blank
    /\ c_rows[4][SubCol(c_rows)] = Num(20 * Unit + 4)
    /\ comp.v.bu_sum["dallas"] = 30 * Unit
    /\ comp.v.bu_sum["denton"] = 0

\* the dates of the data rows whose date cell parses, whatever their unit
AllRowDates(rows) ==
    {try_parse_any_date(rows[i][DateCol(rows)]).d :
        i \in {j \in 2..Len(rows) :
                 /\ Len(rows[j]) >= DateCol(rows)
                 /\ try_parse_any_date(rows[j][DateCol(rows)]).some}}

\* the dates of the data rows the scan reads a date from: long enough, of a
\* configured unit, with a date cell that parses
UnitRowDates(rows) ==
    {try_parse_any_date(rows[i][DateCol(rows)]).d :
        i \in {j \in 2..Len(rows) :
                 /\ Len(rows[j]) >= Max({BuCol(rows), DateCol(rows), SubCol(rows)})
                 /\ ~Unrecognised(rows, rows[j])
                 /\ try_parse_any_date(rows[j][DateCol(rows)]).some}}

Scanned(r) == r.exc \notin {"unset", "EmptyAttachment", "MissingColumn"}

\* C9, as stated: the anchor date is the least date of all data rows whose
\* date cell parses, rows of unconfigured units included, and NoValidDates is
\* raised exactly when no row yielded a date.
C9_AnchorOverAllRows ==
    (pc = "upcoming_done" /\ Scanned(up))
       => /\ up.exc = "" => /\ AllRowDates(up_rows) # {}
                            /\ up.v.today_in_file = Min(AllRowDates(up_rows))
          /\ up.exc = "NoValidDates" <=> AllRowDates(up_rows) = {}

\* C9, amended: the anchor date is the least date of the data rows of the
\* configured units whose date cell parses, and NoValidDates is raised
\* exactly when there is no such row.
C9_AnchorOverUnitRows ==
    (pc = "upcoming_done" /\ Scanned(up))
       => /\ up.exc = "" => /\ UnitRowDates(up_rows) # {}
                            /\ up.v.today_in_file = Min(UnitRowDates(up_rows))
          /\ up.exc = "NoValidDates" <=> UnitRowDates(up_rows) = {}

\* a row of an unconfigured unit holds a date before the anchor returned
C9_Witness ==
    /\ pc = "upcoming_done" /\ up.exc = ""
    /\ \E d \in AllRowDates(up_rows) : d < up.v.today_in_file

-----------------------------------------------------------------------------
(* The two applications on their own, each applied twice *)

Groups == {"global"} \cup BUs

ColsOf(g) == IF g = "global" THEN GlobalCols ELSE BU_MAP[g]

DateCols == {ColsOf(g).date_col : g \in Groups}
ScheduledCols == {ColsOf(g).scheduled_col : g \in Groups}

\* what a date column holds below the header
SheetDateCells == {DateCellOf(k) : k \in 1..MaxDate} \cup {NoneCell}

\* the usual date column: a header, then the dates in order, then nothing
UsualDateCell(row) ==
    IF row = 1 THEN Name("date", FALSE, TRUE)
    ELSE IF row - 1 <= MaxDate THEN DateCellOf(row - 1)
    ELSE NoneCell

\* a worksheet whose date column of group g holds column (a function of the
\* row), every other date column the usual one, every scheduled cell an
\* earlier figure and every completed cell nothing
SheetWith(g, column) ==
    [row \in 1..MaxRow |->
        [col \in SheetCols |->
            IF col = ColsOf(g).date_col THEN column[row]
            ELSE IF col \in DateCols THEN UsualDateCell(row)
            ELSE IF row = 1 THEN Name("revenue", FALSE, TRUE)
            ELSE IF col \in ScheduledCols THEN Num(77 * Unit)
            ELSE NoneCell]]

\* date columns: any cells below a first row that itself holds a date
DateColumns ==
    {[row \in 1..MaxRow |-> IF row = 1 THEN DateCellOf(MaxDate) ELSE below[row]] :
        below \in [2..MaxRow -> SheetDateCells]}

Sheets == {SheetWith(g, column) :
              g \in {"global", "arlington", "denton"}, column \in DateColumns}

\* results of the upcoming aggregator
ApplyUpcomingRows ==
    {MakeRow(HeaderStd, Name(bu, FALSE, FALSE), DateCellOf(k), Num(10 * Unit + 4)) :
        bu \in {"arlington", "denton"}, k \in 1..MaxDate}

UpcomingResults ==
    {subtotal_by_date_from_rows_upcoming(<<HeaderStd.cells>> \o body) :
        body \in SeqsUpTo(ApplyUpcomingRows, MaxApplyBody) \ {<<>>}}

\* results of the completed aggregator
ApplyCompletedBodies ==
    LET row(bu, n) == MakeRow(HeaderNoDate, Name(bu, FALSE, FALSE), NoneCell, Num(n))
    IN  {<<row("dallas", 10 * Unit)>>,
         <<row("dallas", 10 * Unit), row("houston", 20 * Unit + 4)>>,
         <<row("arlington", 20 * Unit + 4), row("dallas", 10 * Unit)>>}

CompletedResults ==
    {completed_values_from_rows_by_bu_sum_jobs_subtotal(<<HeaderNoDate.cells>> \o body) :
        body \in ApplyCompletedBodies}

InitApply ==
    /\ \/ /\ pc = "apply_upcoming"
          /\ up \in UpcomingResults /\ comp = Unset /\ file_date = Unset
       \/ /\ pc = "apply_completed"
          /\ up = Unset /\ comp \in CompletedResults
          /\ file_date \in {Returned(DateOf(2024, 3, k)) : k \in 1..(MaxDate + 1)}
    /\ ws \in Sheets
    /\ ws_before = ws /\ ws_once = NoSheet
    /\ napply = 0 /\ writes = {} /\ glob_totals = <<>>
    /\ NoMoney /\ NoMail /\ NoDocs /\ NoRemote

ApplyUpcoming ==
    /\ pc = "apply_upcoming"
    /\ napply < 2
    /\ ws' = apply_upcoming_to_workbook(ws, up.v.today_in_file, up.v.totals_by_bu_date)
    /\ writes' = upcoming_writes(ws, up.v.today_in_file, up.v.totals_by_bu_date)
    /\ glob_totals' = global_totals_of(up.v.totals_by_bu_date)
    /\ napply' = napply + 1
    /\ ws_once' = IF napply = 0 THEN ws' ELSE ws_once
    /\ UNCHANGED <<pc, moneyVars, mailVars, docVars, resVars, remoteVars, ws_before>>

ApplyCompleted ==
    /\ pc = "apply_completed"
    /\ napply < 2
    /\ ws' = apply_completed_to_workbook(ws, file_date.v, comp.v.global_sum,
                                         comp.v.bu_sum)
    /\ writes' = completed_application(ws, file_date.v, comp.v.global_sum,
                                       comp.v.bu_sum).writes
    /\ napply' = napply + 1
    /\ ws_once' = IF napply = 0 THEN ws' ELSE ws_once
    /\ UNCHANGED <<pc, moneyVars, mailVars, docVars, resVars, remoteVars,
                   ws_before, glob_totals>>

NextApply == ApplyUpcoming \/ ApplyCompleted

SpecApply == InitApply /\ [][NextApply]_vars

-----------------------------------------------------------------------------
(* Claims about the applications *)

IndexOf(sheet, g) == build_sheet_date_row_map_xl(sheet, ColsOf(g).date_col)

UpcomingApplied == pc = "apply_upcoming" /\ napply >= 1
CompletedApplied == pc = "apply_completed" /\ napply >= 1

\* C1: the upcoming application assigns a scheduled cell only for a date
\* strictly after the anchor date that the group's date index holds, at the
\* row the index gives; the scheduled cell of a row whose date is on or
\* before the anchor keeps its value.
C1_NoWriteOnOrBeforeAnchor ==
    UpcomingApplied =>
      /\ \A w \in writes :
            /\ w.d > up.v.today_in_file
            /\ \E g \in Groups :
                  /\ w.col = ColsOf(g).scheduled_col
                  /\ w.d \in DOMAIN IndexOf(ws_before, g)
                  /\ w.row = IndexOf(ws_before, g)[w.d]
      /\ \A g \in Groups : \A row \in 2..Len(ws) :
            LET d == try_parse_any_date(ws_before[row][ColsOf(g).date_col])
            IN  (d.some /\ d.d <= up.v.today_in_file)
                  => ws[row][ColsOf(g).scheduled_col]
                       = ws_before[row][ColsOf(g).scheduled_col]

\* a unit has a total for the anchor date, its index holds the anchor date,
\* and the application assigned other cells
C1_Witness ==
    /\ UpcomingApplied
    /\ writes # {}
    /\ \E bu \in BUs :
          /\ up.v.today_in_file \in DOMAIN up.v.totals_by_bu_date[bu]
          /\ up.v.today_in_file \in DOMAIN IndexOf(ws_before, bu)
          /\ up.v.today_in_file \in DOMAIN IndexOf(ws_before, "global")

ValueOf(g) == IF g = "global" THEN comp.v.global_sum ELSE comp.v.bu_sum[g]

\* C4: the completed application assigns, for each column group whose date
\* index holds file_date, the completed cell and an empty scheduled cell at
\* the row the index gives; every completed assignment is paired with a
\* clearing of the scheduled cell of the same group at the same row and the
\* other way round; a group whose index lacks file_date gets no assignment.
C4_CompletedPairsWithClear ==
    CompletedApplied =>
      \A g \in Groups :
        LET idx == IndexOf(ws_before, g)
            cc == ColsOf(g).completed_col
            sc == ColsOf(g).scheduled_col
        IN  /\ \A w \in writes :
                  /\ w.col = cc =>
                        \E w2 \in writes :
                            w2.row = w.row /\ w2.col = sc /\ w2.value = Blank
                  /\ w.col = sc =>
                        /\ w.value = Blank
                        /\ \E w2 \in writes : w2.row = w.row /\ w2.col = cc
            /\ IF file_date.v \in DOMAIN idx
               THEN /\ Write(idx[file_date.v], cc, Num(ValueOf(g)), file_date.v)
                          \in writes
                    /\ Write(idx[file_date.v], sc, Blank, file_date.v) \in writes
                    /\ ws[idx[file_date.v]][cc] = Num(ValueOf(g))
                    /\ ws[idx[file_date.v]][sc] = Blank
                    /\ \A w \in writes :
                          w.col \in {cc, sc} => w.row = idx[file_date.v]
               ELSE \A w \in writes : w.col \notin {cc, sc}

\* one group's index holds file_date and its scheduled cell held a figure,
\* another group's index lacks file_date
C4_Witness ==
    /\ CompletedApplied
    /\ \E g, h \in Groups :
          /\ file_date.v \in DOMAIN IndexOf(ws_before, g)
          /\ ws_before[IndexOf(ws_before, g)[file_date.v]][ColsOf(g).scheduled_col]
               = Num(77 * Unit)
          /\ ws[IndexOf(ws_before, g)[file_date.v]][ColsOf(g).scheduled_col] = Blank
          /\ file_date.v \notin DOMAIN IndexOf(ws_before, h)

RECURSIVE SumOver(_, _, _)
SumOver(totals, units, d) ==
    IF units = {} THEN 0
    ELSE LET bu == CHOOSE x \in units : TRUE
         IN  Get(totals[bu], d, 0) + SumOver(totals, units \ {bu}, d)

Abs(x) == IF x < 0 THEN 0 - x ELSE x

\* C6: the global total the upcoming application derives for a date is the
\* sum of the units' totals for that date, within one cent, and a date has a
\* global total exactly when some unit has a total for it; the global
\* scheduled cell is assigned that total.
C6_GlobalIsSumOfUnits ==
    UpcomingApplied =>
      /\ DOMAIN glob_totals =
            UNION {DOMAIN up.v.totals_by_bu_date[bu] : bu \in BUs}
      /\ \A d \in DOMAIN glob_totals :
            Abs(glob_totals[d] - SumOver(up.v.totals_by_bu_date, BUs, d)) <= Cent
      /\ \A w \in writes :
            w.col = COL_SCHEDULED => w.value = Num(glob_totals[w.d])

\* two units have a total for a date after the anchor and the global
\* scheduled cell of that date was assigned
C6_Witness ==
    /\ UpcomingApplied
    /\ \E w \in writes :
          /\ w.col = COL_SCHEDULED
          /\ Cardinality({bu \in BUs : w.d \in DOMAIN up.v.totals_by_bu_date[bu]}) >= 2

\* C7: applying an application a second time with the same inputs leaves
\* every cell as the first application left it, and an application changes
\* no date column.
C7_Idempotent ==
    /\ napply = 2 => ws = ws_once
    /\ napply >= 1 =>
          \A row \in 1..Len(ws) : \A col \in DateCols :
              ws[row][col] = ws_before[row][col]

\* the upcoming application was applied twice and changed the worksheet
C7_Witness ==
    /\ pc = "apply_upcoming" /\ napply = 2
    /\ ws_once # ws_before
    /\ writes # {}

-----------------------------------------------------------------------------
(* main, lines 450-508 *)

\* steps 3 and 4 swapped: completed first, then upcoming
next_step_completed_first(step) ==
    CASE step = "download" -> "completed"
      [] step = "completed" -> "upcoming"
      [] step = "upcoming" -> "save"

\* the order of the steps of main after the download: 3) upcoming,
\* 4) completed, 5) save and upload
next_step(step) ==
    CASE step = "download" -> "upcoming"
      [] step = "upcoming" -> "completed"
      [] step = "completed" -> "save"

\* the worksheets on SharePoint: the usual one, one whose dallas date column
\* is empty, and a workbook without the tab
MainSheets ==
    {SheetWith("global", [row \in 1..MaxRow |-> UsualDateCell(row)]),
     SheetWith("dallas", [row \in 1..MaxRow |-> NoneCell]),
     NoSheet}

MainUpcomingDocs ==
    LET row(bu, date, amt) == MakeRow(HeaderStd, Name(bu, FALSE, FALSE), date, amt)
        amt == Num(10 * Unit + 4)
    IN  {Attachment(HeaderStd, <<row("arlington", DateCellOf(1), amt),
                                 row("arlington", DateCellOf(2), amt),
                                 row("dallas", DateCellOf(2), amt)>>),
         Attachment(HeaderStd, <<row("dallas", DateCellOf(2), amt),
                                 row("dallas", DateCellOf(1), amt)>>),
         <<>>,
         Attachment(HeaderNoDate,
                    <<MakeRow(HeaderNoDate, Name("dallas", FALSE, FALSE), NoneCell, amt)>>),
         Attachment(HeaderStd,
                    <<row("arlington", DateStr("words", DateOf(2024, 3, 1)), amt)>>),
         Attachment(HeaderStd, <<row("arlington", DateCellOf(1), BadAmount)>>)}

MainCompletedDocs ==
    LET row(h, bu, amt) == MakeRow(h, Name(bu, FALSE, FALSE), NoneCell, amt)
    IN  {Attachment(HeaderNoDate, <<row(HeaderNoDate, "dallas", Num(10 * Unit)),
                                    row(HeaderNoDate, "houston", Num(20 * Unit + 4))>>),
         Attachment(HeaderNoDate, <<>>),
         Attachment(HeaderNoUnit, <<row(HeaderNoUnit, "dallas", Num(10 * Unit))>>),
         Attachment(HeaderNoDate, <<row(HeaderNoDate, "dallas", BadAmount)>>)}

MainFileNames ==
    {FileName(<<2024, 3, 2>>), FileName(<<3, 2, 24>>), FileName(<<3, 1, 2024>>),
     FileName(<<>>), FileName(<<13, 40, 24>>)}

NoName == FileName(<<>>)

Init ==
    /\ pc = "start"
    /\ \/ up_msg \in {"none", "no_xlsx"} /\ up_rows = <<>>
       \/ up_msg = "xlsx" /\ up_rows \in MainUpcomingDocs
    /\ \/ c_msg \in {"none", "no_xlsx"} /\ c_rows = <<>> /\ c_fname = NoName
       \/ c_msg = "xlsx" /\ c_rows \in MainCompletedDocs /\ c_fname \in MainFileNames
    /\ remote \in MainSheets
    /\ uploaded = FALSE
    /\ NoMoney /\ NoResults /\ NoSheets

\* lines 457-463
GetLatestMessages ==
    /\ pc = "start"
    /\ pc' = IF up_msg = "none" /\ c_msg = "none" THEN "returned" ELSE "download"
    /\ UNCHANGED <<moneyVars, mailVars, docVars, resVars, remoteVars, sheetVars>>

\* lines 465-470
DownloadWorkbook ==
    /\ pc = "download"
    /\ ws' = remote
    /\ ws_before' = remote
    /\ pc' = IF remote = NoSheet THEN "raised" ELSE next_step("download")
    /\ UNCHANGED <<moneyVars, mailVars, docVars, resVars, remoteVars, ws_once,
                   napply, writes, glob_totals>>

\* lines 472-484
StepUpcoming ==
    /\ pc = "upcoming"
    /\ IF up_msg = "xlsx"
       THEN LET r == subtotal_by_date_from_rows_upcoming(up_rows)
            IN  /\ up' = r
                /\ IF r.exc # ""
                   THEN /\ pc' = "raised"
                        /\ UNCHANGED <<ws, writes, glob_totals>>
                   ELSE /\ ws' = apply_upcoming_to_workbook(
                                     ws, r.v.today_in_file, r.v.totals_by_bu_date)
                        /\ writes' = upcoming_writes(
                                         ws, r.v.today_in_file, r.v.totals_by_bu_date)
                        /\ glob_totals' = global_totals_of(r.v.totals_by_bu_date)
                        /\ pc' = next_step("upcoming")
       ELSE /\ pc' = next_step("upcoming")
            /\ UNCHANGED <<up, ws, writes, glob_totals>>
    /\ UNCHANGED <<moneyVars, mailVars, docVars, comp, file_date, remoteVars,
                   ws_before, ws_once, napply>>

\* lines 486-501
StepCompleted ==
    /\ pc = "completed"
    /\ IF c_msg = "xlsx"
       THEN LET fd == extract_date_from_filename(c_fname)
                r == completed_values_from_rows_by_bu_sum_jobs_subtotal(c_rows)
            IN  /\ file_date' = fd
                /\ IF fd.exc # ""
                   THEN /\ pc' = "raised"
                        /\ UNCHANGED <<comp, ws, writes>>
                   ELSE /\ comp' = r
                        /\ IF r.exc # ""
                           THEN /\ pc' = "raised"
                                /\ UNCHANGED <<ws, writes>>
                           ELSE /\ ws' = apply_completed_to_workbook(
                                             ws, fd.v, r.v.global_sum, r.v.bu_sum)
                                /\ writes' = completed_application(
                                                 ws, fd.v, r.v.global_sum,
                                                 r.v.bu_sum).writes
                                /\ pc' = next_step("completed")
       ELSE /\ pc' = next_step("completed")
            /\ UNCHANGED <<comp, file_date, ws, writes>>
    /\ UNCHANGED <<moneyVars, mailVars, docVars, up, remoteVars, ws_before,
                   ws_once, napply, glob_totals>>

\* lines 503-508
SaveAndUpload ==
    /\ pc = "save"
    /\ remote' = ws
    /\ uploaded' = TRUE
    /\ pc' = "done"
    /\ UNCHANGED <<moneyVars, mailVars, docVars, resVars, sheetVars>>

Next ==
    \/ GetLatestMessages
    \/ DownloadWorkbook
    \/ StepUpcoming
    \/ StepCompleted
    \/ SaveAndUpload

Spec == Init /\ [][Next]_vars

-----------------------------------------------------------------------------
(* Claims about main *)

Ended == pc \in {"done", "raised", "returned"}

DocumentFatal == {"MissingColumn", "EmptyAttachment", "NoValidDates",
                  "UnparseableFilenameDate"}

UpcomingOf == subtotal_by_date_from_rows_upcoming(up_rows)
CompletedValues == completed_values_from_rows_by_bu_sum_jobs_subtotal(c_rows)
FileDateOf == extract_date_from_filename(c_fname)

\* C2: with both messages and both attachments found, a fatal condition of one
\* document's pipeline leaves the other document's reconciliation standing:
\* if the upcoming pipeline fails, the completed document is still applied
\* and the workbook uploaded; if the completed pipeline fails, the upcoming
\* writes still reach the uploaded workbook.
C2_FatalAbortsOnlyItsDocument ==
    (Ended /\ up_msg = "xlsx" /\ c_msg = "xlsx" /\ ws_before # NoSheet) =>
      /\ (/\ UpcomingOf.exc \in DocumentFatal
          /\ FileDateOf.exc = "" /\ CompletedValues.exc = "")
            => /\ uploaded
               /\ remote = apply_completed_to_workbook(
                               ws_before, FileDateOf.v,
                               CompletedValues.v.global_sum, CompletedValues.v.bu_sum)
      /\ (/\ UpcomingOf.exc = ""
          /\ (FileDateOf.exc \in DocumentFatal \/ CompletedValues.exc \in DocumentFatal))
            => /\ uploaded
               /\ remote = apply_upcoming_to_workbook(
                               ws_before, UpcomingOf.v.today_in_file,
                               UpcomingOf.v.totals_by_bu_date)

BothProcessed == pc = "done" /\ up.exc = "" /\ comp.exc = ""

\* C10: when both documents are processed, the upcoming application comes
\* before the completed one, so in the uploaded worksheet the scheduled cell
\* at the file_date row is empty for the global group and for every unit
\* whose date index holds file_date.
C10_CompletedClearStands ==
    BothProcessed =>
      \A g \in Groups :
        file_date.v \in DOMAIN IndexOf(ws_before, g)
          => remote[IndexOf(ws_before, g)[file_date.v]][ColsOf(g).scheduled_col]
               = Blank

\* the upcoming extract held a total for file_date after its anchor date for
\* a unit whose index holds file_date, and the cell is empty at the end
C10_Witness ==
    /\ BothProcessed
    /\ \E bu \in BUs :
          /\ file_date.v > up.v.today_in_file
          /\ file_date.v \in DOMAIN up.v.totals_by_bu_date[bu]
          /\ file_date.v \in DOMAIN IndexOf(ws_before, bu)
          /\ file_date.v \in DOMAIN IndexOf(ws_before, "global")
          /\ remote[IndexOf(ws_before, bu)[file_date.v]][BU_MAP[bu].scheduled_col]
               = Blank
          /\ remote[IndexOf(ws_before, "global")[file_date.v]][COL_SCHEDULED] = Blank

=============================================================================
